---- MODULE Spec2Model ----
(***************************************************************************)
(* TeneoWebsocketClient (src/src/ping.ts) and its driver                   *)
(* handleSingleClient (src/unnamed/part_000) as a state machine.           *)
(*                                                                         *)
(* One step of the model is one run-to-completion piece of JavaScript: the *)
(* synchronous part of a public method up to its first await, one promise  *)
(* continuation (microtask), or one transport event handler.  Timer ticks   *)
(* and the events that come from the network are macrotasks: they fire     *)
(* only when no continuation is queued.  The events that the transport     *)
(* emits from process.nextTick (the error and close of a failed handshake, *)
(* the first frame and the errors of an opened transport) also run while   *)
(* continuations are queued.                                               *)
(*                                                                         *)
(* Transports have no names: the client tells them apart only by what the  *)
(* handle refers to, and every listener is a closure over the client.  The *)
(* handle holds the transport it refers to; the transports it has stopped  *)
(* referring to, which go on emitting events, are kept as a bag.           *)
(***************************************************************************)
EXTENDS Integers, Sequences, FiniteSets, Bags, TLC

\* ------------------------------------------------------------------ bounds
MaxWs == 2        \* transports that exist at the same time
MaxTasks == 2     \* calls that are pending at the same time

\* --------------------------------------------------------------- constants
MAX_RETRIES == 5
MIN_PORT == 1
MAX_PORT == 65535

\* the history counter failStreak counts to one past the ceiling
StreakCap == MAX_RETRIES + 1

Null == <<>>

VARIABLES
    webSocket,    \* this.webSocket: Null or <<the transport it refers to>>
    state,        \* this.state
    retries,      \* this.retries
    proxyConfig,  \* this.proxyConfig: <<>> (null) or <<[hostname, port]>>
    ws,           \* the other transports that exist, a bag
    microq,       \* the continuations ready to run, in order
    proxyUrl,     \* a line of the proxy file, the argument of createProxyConfig
    parseRes,     \* what createProxyConfig made of it
    sent,         \* the step taken last called WebSocket.send and it returned
    sendErr,      \* the send callback of ping() is due with an error
    uncaught,     \* an exception escaped a callback: the process is gone
    interval,     \* the driver's setInterval handle
    drv,          \* position of handleSingleClient ("max_retries": a ping()
                  \* of its tick has failed with the max-retries error)
    lastAct,      \* history: the step taken last
    out,          \* history: what that step returned or threw
    tracking,     \* history: whether failStreak is recorded (SpecStreak only)
    failStreak,   \* history: failed ping() reconnects since the last open
    sinceDisc     \* history: disconnect() ran and connect() was not called since

vars == <<webSocket, state, retries, proxyConfig, proxyUrl, parseRes, ws, microq, sent, sendErr,
          uncaught, interval, drv, lastAct, out, tracking, failStreak,
          sinceDisc>>

\* what no step of the client changes
config == <<proxyConfig, proxyUrl, parseRes, tracking>>

\* ------------------------------------------------------------ proxy configs
ValidProxy == [hostname |-> "proxy.local", port |-> 8080]
BadProxy == [hostname |-> "proxy.local", port |-> 0]
ProxyConfigs == {<<>>, <<ValidProxy>>, <<BadProxy>>}

\* createProxyAgent: TRUE when the agent is built, FALSE when it throws
createProxyAgent(cfg) == ~(cfg.hostname = "" \/ cfg.port = 0)

\* ------------------------------------------------------- createProxyConfig
\* A proxy descriptor is text of the form scheme://[user:pass@]host[:port];
\* it is kept by its parts, each the text between the delimiters.  The text
\* of a port is absent, made of letters, or made of digits (n their value).
Schemes == {"http", "https", "ftp", "socks5"}
Users == {"", "user"}
Passwords == {"", "p%40ss", "%"}
Hosts == {"", "proxy.local"}
PortNumbers == {0, MIN_PORT, 80, 443, 8080, MAX_PORT, MAX_PORT + 1}
PortTexts == {[kind |-> "absent", n |-> 0], [kind |-> "letters", n |-> 0]}
                \cup {[kind |-> "digits", n |-> p] : p \in PortNumbers}

\* the empty line of the proxy file
EmptyLine == [scheme |-> "", user |-> "", pass |-> "", host |-> "",
              port |-> [kind |-> "absent", n |-> 0]]

Descriptors ==
    {EmptyLine} \cup [scheme : Schemes, user : Users, pass : Passwords,
                      host : Hosts, port : PortTexts]

\* the WHATWG URL parser behind `new URL(proxyUrl)`: it throws on a port that
\* is not digits or is above 65535, on an empty host under a special scheme
\* and on an empty host with a port, a user or a password under any scheme,
\* and it drops a port that is the default of the scheme
IsSpecial(scheme) == scheme \in {"http", "https", "ftp"}

DefaultPort(scheme) ==
    CASE scheme = "http" -> 80
      [] scheme = "https" -> 443
      [] scheme = "ftp" -> 21
      [] OTHER -> 0

URL(d) ==
    IF \/ d.port.kind = "letters"
       \/ d.port.kind = "digits" /\ d.port.n > 65535
       \/ /\ d.host = ""
          /\ \/ IsSpecial(d.scheme)
             \/ d.port.kind # "absent"
             \/ d.user # ""
             \/ d.pass # ""
    THEN [ok |-> FALSE, protocol |-> "", username |-> "", password |-> "",
          hostname |-> "", port |-> [empty |-> TRUE, n |-> 0]]
    ELSE [ok |-> TRUE, protocol |-> d.scheme, username |-> d.user,
          password |-> d.pass, hostname |-> d.host,
          port |-> IF \/ d.port.kind = "absent"
                      \/ IsSpecial(d.scheme) /\ d.port.n = DefaultPort(d.scheme)
                   THEN [empty |-> TRUE, n |-> 0]
                   ELSE [empty |-> FALSE, n |-> d.port.n]]

\* decodeURIComponent: throws URIError on a % that starts no escape
Decodable(x) == x # "%"
decodeURIComponent(x) == IF x = "p%40ss" THEN "p@ss" ELSE x

ProxyError(message) ==
    [ok |-> FALSE, error |-> message, hostname |-> "", port |-> 0, auth |-> <<>>]

NotParsed == ProxyError("not parsed")

createProxyConfig(d) ==
    IF d = EmptyLine THEN ProxyError("Proxy URL cannot be empty")
    ELSE LET url == URL(d)
             withAuth == url.username # "" /\ url.password # ""
         IN
         IF ~url.ok THEN ProxyError("Invalid proxy URL: TypeError")
         ELSE IF withAuth /\ ~(Decodable(url.username) /\ Decodable(url.password))
         THEN ProxyError("Invalid proxy URL: URIError")
         ELSE IF url.hostname = ""
         THEN ProxyError("Invalid proxy URL: missing hostname")
         ELSE IF url.port.empty
         THEN ProxyError("Invalid proxy URL: missing or invalid port")
         ELSE IF url.port.n > MAX_PORT \/ url.port.n < MIN_PORT
         THEN ProxyError("Invalid proxy URL: port must be between 1 and 65535")
         ELSE IF url.protocol \notin {"http", "https"}
         THEN ProxyError("Invalid proxy URL: protocol must be http or https")
         ELSE [ok |-> TRUE, error |-> "", hostname |-> url.hostname,
               port |-> url.port.n,
               auth |-> IF withAuth
                        THEN <<[username |-> decodeURIComponent(url.username),
                                password |-> decodeURIComponent(url.password)]>>
                        ELSE <<>>]

\* ------------------------------------------------------------------ helpers
\* a transport: its readyState and the connect() that awaits its open or
\* error (kind "connect": called directly, "ping": called by ping(), "none":
\* no call awaits it; by: who made the call), and whether its receiver reads
\* frames (rx: from open until an error, the close frame of the peer or the
\* end of the socket)
Transport(rs, kind, by) ==
    [readyState |-> rs, kind |-> kind, by |-> by, rx |-> (rs = "OPEN")]

\* a continuation that waits in the microtask queue
Continuation(kind, by, pc, res) ==
    [kind |-> kind, by |-> by, pc |-> pc, res |-> res]

\* What stays in the event loop of the transport h when the handle stops
\* referring to it: a closed transport is forgotten, any other goes on
\* emitting events (no listener is ever removed).
Retire(h) ==
    IF h = Null \/ h[1].readyState = "CLOSED" THEN EmptyBag
    ELSE SetToBag({h[1]})

\* the transports that a call awaits, beside the handle's
Awaited == [x \in {y \in DOMAIN ws : y.kind # "none"} |-> ws[x]]

\* connect()/ping() calls that have not returned, and catch blocks of the tick
NumCalls ==
    Len(microq) + BagCardinality(Awaited)
        + (IF webSocket # Null /\ webSocket[1].kind # "none" THEN 1 ELSE 0)

\* transports that exist and are not closed
NumWs ==
    BagCardinality(ws)
        + (IF webSocket = Null \/ webSocket[1].readyState = "CLOSED" THEN 0 ELSE 1)

\* calls that await their proxy agent: each is about to create a transport
AtAgent == {i \in 1..Len(microq) : microq[i].pc = "agent"}

Min(S) == CHOOSE x \in S : \A y \in S : x <= y

\* WebSocket.close() of the ws library, by readyState
CloseRs(r) ==
    CASE r = "CONNECTING" -> "ABORTING"
      [] r = "OPEN" -> "CLOSING"
      [] OTHER -> r

isConnected == state = "CONNECTED"

\* ------------------------------------------------------------- disconnect()
disconnect ==
    /\ ws' = ws (+) Retire(IF webSocket = Null THEN Null
                           ELSE <<[webSocket[1] EXCEPT !.readyState = CloseRs(@)]>>)
    /\ webSocket' = Null
    /\ state' = "DISCONNECTED"

\* The catch block of the driver's tick, entered with the rejection of
\* `await client.ping()`: `await client.disconnect()` and, in a continuation
\* of its own, clearInterval.
CatchTask(cause) == Continuation("tick", "tick", "catch", cause)

\* room for one more pending call
FreeTasks == NumCalls < MaxTasks

\* ping() throws before its first await: the rejection reaches its caller
rejectPing(by, cause) ==
    IF by = "tick"
    THEN /\ FreeTasks
         /\ microq' = Append(microq, CatchTask(cause))
         /\ drv' = IF cause = "ping_max_retries" THEN "max_retries" ELSE drv
    ELSE UNCHANGED <<microq, drv>>

clearInterval == interval' = "cleared"

\* ---------------------------------------------- connect(), up to its await
connectStart(kind, by) ==
    IF proxyConfig = <<>>
    THEN /\ webSocket' = <<Transport("CONNECTING", kind, by)>>
         /\ ws' = ws (+) Retire(webSocket)
         /\ UNCHANGED <<state, microq>>
    ELSE /\ state' = "CONNECTING"
         /\ microq' = Append(microq, Continuation(kind, by, "agent", ""))
         /\ UNCHANGED <<webSocket, ws>>

\* room for one more pending call and its transport, beside the transports
\* that the calls awaiting their proxy agent will create (a closed transport
\* that the handle refers to makes way for the new one)
Room == /\ FreeTasks
        /\ NumWs + Cardinality(AtAgent) < MaxWs

\* the process is alive and no failing send callback is due
Alive == ~uncaught /\ ~sendErr

\* a caller's code runs: in a timer callback or in a promise continuation of
\* its own, so between any two steps of the client
CanCall == ~uncaught

\* a macrotask (timer, event from the network) runs: nothing is queued
Quiet == /\ Alive
         /\ microq = <<>>

\* a variant of connect() without the early return of the CONNECTED state
connect_alwaysOpens(by) ==
    /\ lastAct' = "connect"
    /\ Room
    /\ connectStart("connect", by)
    /\ out' = "connect_pending"
    /\ sinceDisc' = FALSE
    /\ sent' = FALSE
    /\ UNCHANGED <<retries, config, sendErr, uncaught, interval, failStreak>>

connect(by) ==
    /\ lastAct' = "connect"
    /\ IF state = "CONNECTED"
       THEN /\ out' = "connect_noop"
            /\ UNCHANGED <<webSocket, state, ws, microq, sinceDisc>>
       ELSE /\ Room
            /\ connectStart("connect", by)
            /\ out' = "connect_pending"
            /\ sinceDisc' = FALSE
    /\ sent' = FALSE
    /\ UNCHANGED <<retries, config, sendErr, uncaught, interval, failStreak>>

\* ------------------------------------------------------------------- ping()
ping(by) ==
    /\ lastAct' = "ping"
    /\ UNCHANGED <<retries, config, uncaught, failStreak>>
    /\ IF webSocket = Null
       THEN /\ out' = "ping_not_initialized"
            /\ sent' = FALSE
            /\ rejectPing(by, "ping_not_initialized")
            /\ UNCHANGED <<webSocket, ws, state, interval, sinceDisc, sendErr>>
       ELSE IF ~isConnected
       THEN IF retries >= MAX_RETRIES
            THEN /\ out' = "ping_max_retries"
                 /\ sent' = FALSE
                 /\ disconnect
                 /\ rejectPing(by, "ping_max_retries")
                 /\ sinceDisc' = TRUE
                 /\ UNCHANGED <<interval, sendErr>>
            ELSE /\ Room
                 /\ out' = "ping_reconnecting"
                 /\ sent' = FALSE
                 /\ connectStart("ping", by)
                 /\ sinceDisc' = FALSE
                 /\ UNCHANGED <<interval, sendErr, drv>>
       ELSE IF webSocket[1].readyState = "CONNECTING"
       THEN \* WebSocket.send throws while readyState is CONNECTING
            /\ out' = "ping_send_threw"
            /\ sent' = FALSE
            /\ rejectPing(by, "ping_send_threw")
            /\ UNCHANGED <<webSocket, ws, state, interval, sinceDisc, sendErr>>
       ELSE \* WebSocket.send: on an open transport the callback reports
            \* success or an error, on any other it reports an error
            /\ out' = "ping_returned"
            /\ sent' = TRUE
            /\ \E err \in (IF webSocket[1].readyState = "OPEN"
                           THEN BOOLEAN ELSE {TRUE}) :
                  sendErr' = (sendErr \/ err)
            /\ UNCHANGED <<webSocket, ws, state, interval, sinceDisc,
                           microq, drv>>

\* the callback handed to WebSocket.send, called with an error: its throw is
\* outside every try block and promise.  (Called without an error it only
\* logs, which leaves no trace in the state.)  The transport calls it after
\* the caller's synchronous code and before the next transport event or
\* timer tick.
SendCallback ==
    /\ ~uncaught
    /\ sendErr
    /\ uncaught' = TRUE
    /\ out' = "uncaught_send_error"
    /\ sendErr' = FALSE
    /\ sent' = FALSE
    /\ lastAct' = "send_callback"
    /\ UNCHANGED <<webSocket, state, retries, config, ws, microq,
                   interval, drv, failStreak, sinceDisc>>

\* ---------------------------------------------------- promise continuations
\* a variant of the end of connect() whose catch block rethrows without
\* `this.state = DISCONNECTED`
connectEnd_keepsState(failed) ==
    /\ microq' = Append(Tail(microq),
                        [Head(microq) EXCEPT !.pc = "returned",
                            !.res = IF failed THEN "err" ELSE "ok"])
    /\ out' = IF failed THEN "connect_threw" ELSE "connect_returned"
    /\ sent' = FALSE
    /\ UNCHANGED <<state, retries, failStreak, drv, interval, sinceDisc>>

\* The end of connect(), run by the continuation at the head of the queue:
\* the success log and return, or the catch block (`this.state =
\* DISCONNECTED`, throw).  The promise of connect() settles and the
\* continuation of its caller is queued behind what is queued.
connectEnd(failed) ==
    /\ state' = IF failed THEN "DISCONNECTED" ELSE state
    /\ microq' = Append(Tail(microq),
                        [Head(microq) EXCEPT !.pc = "returned",
                            !.res = IF failed THEN "err" ELSE "ok"])
    /\ out' = IF failed THEN "connect_threw" ELSE "connect_returned"
    /\ sent' = FALSE
    /\ UNCHANGED <<retries, failStreak, drv, interval, sinceDisc>>

\* a variant of the continuation of ping() without the `return` after
\* retries++: the reconnecting ping() goes on to WebSocket.send
complete_fallsThrough(failed) ==
    LET kind == Head(microq).kind
        by == Head(microq).by
        torn == failed /\ kind = "ping" /\ by = "tick"
    IN
    /\ microq' = IF torn
                 THEN Append(Tail(microq), CatchTask("ping_connect_failed"))
                 ELSE Tail(microq)
    /\ retries' = IF kind = "ping" /\ ~failed THEN retries + 1 ELSE retries
    /\ sent' = (kind = "ping" /\ ~failed)
    /\ failStreak' = IF kind = "ping" /\ failed /\ tracking
                     THEN Min({failStreak + 1, StreakCap}) ELSE failStreak
    /\ out' = IF kind = "ping"
              THEN (IF failed THEN "ping_connect_failed" ELSE "ping_reconnected")
              ELSE (IF failed THEN "connect_failed" ELSE "connect_resolved")
    /\ drv' = IF by = "init"
              THEN (IF failed THEN "rejected" ELSE "running") ELSE drv
    /\ interval' = IF by = "init" /\ ~failed THEN "active" ELSE interval
    /\ UNCHANGED <<state, webSocket, ws, sinceDisc>>

\* The caller of connect() resumes after `await connect()`, run by the
\* continuation at the head of the queue: ping() (retries++ and return, or
\* the rejection passes on to its caller and queues the catch block of the
\* tick), handleSingleClient (setInterval, or the rejection passes on), or an
\* outside caller.
complete(failed) ==
    LET kind == Head(microq).kind
        by == Head(microq).by
        torn == failed /\ kind = "ping" /\ by = "tick"
    IN
    /\ microq' = IF torn
                 THEN Append(Tail(microq), CatchTask("ping_connect_failed"))
                 ELSE Tail(microq)
    /\ retries' = IF kind = "ping" /\ ~failed THEN retries + 1 ELSE retries
    /\ sent' = FALSE
    /\ failStreak' = IF kind = "ping" /\ failed /\ tracking
                     THEN Min({failStreak + 1, StreakCap}) ELSE failStreak
    /\ out' = IF kind = "ping"
              THEN (IF failed THEN "ping_connect_failed" ELSE "ping_reconnected")
              ELSE (IF failed THEN "connect_failed" ELSE "connect_resolved")
    /\ drv' = IF by = "init"
              THEN (IF failed THEN "rejected" ELSE "running") ELSE drv
    /\ interval' = IF by = "init" /\ ~failed THEN "active" ELSE interval
    /\ UNCHANGED <<state, webSocket, ws, sinceDisc>>

\* connect() resumes after `await createProxyAgent(...)`: it creates the
\* transport and awaits its listeners, or the agent cannot be built
AgentStep ==
    /\ ~uncaught
    /\ microq # <<>>
    /\ Head(microq).pc = "agent"
    /\ lastAct' = "agent"
    /\ IF createProxyAgent(proxyConfig[1])
       THEN /\ webSocket' = <<Transport("CONNECTING", Head(microq).kind,
                                        Head(microq).by)>>
            /\ ws' = ws (+) Retire(webSocket)
            /\ microq' = Tail(microq)
            /\ out' = "transport_created"
            /\ sent' = FALSE
            /\ UNCHANGED <<state, retries, failStreak, drv, interval, sinceDisc>>
       ELSE /\ connectEnd(TRUE)
            /\ UNCHANGED <<webSocket, ws>>
    /\ UNCHANGED <<config, sendErr, uncaught>>

\* connect() resumes after `await this.setupWebSocketListeners()`
Resume ==
    /\ ~uncaught
    /\ microq # <<>>
    /\ Head(microq).pc = "settled"
    /\ lastAct' = "resume"
    /\ connectEnd(Head(microq).res = "err")
    /\ UNCHANGED <<webSocket, ws, config, sendErr, uncaught>>

\* the caller of connect() resumes after `await connect()`
Continue ==
    /\ ~uncaught
    /\ microq # <<>>
    /\ Head(microq).pc = "returned"
    /\ lastAct' = "continue"
    /\ complete(Head(microq).res = "err")
    /\ UNCHANGED <<config, sendErr, uncaught>>

\* the catch block of the tick: logMessage, `await client.disconnect()`
CatchStep ==
    /\ ~uncaught
    /\ microq # <<>>
    /\ Head(microq).pc = "catch"
    /\ disconnect
    /\ microq' = Append(Tail(microq), [Head(microq) EXCEPT !.pc = "clear"])
    /\ lastAct' = "catch"
    /\ out' = Head(microq).res
    /\ sent' = FALSE
    /\ sinceDisc' = TRUE
    /\ UNCHANGED <<retries, config, sendErr, uncaught, interval, drv, failStreak>>

\* the catch block resumes after its await: clearInterval(intervalId)
ClearStep ==
    /\ ~uncaught
    /\ microq # <<>>
    /\ Head(microq).pc = "clear"
    /\ clearInterval
    /\ microq' = Tail(microq)
    /\ lastAct' = "clear"
    /\ out' = Head(microq).res
    /\ sent' = FALSE
    /\ UNCHANGED <<webSocket, state, ws, retries, config, sendErr, uncaught,
                   drv, failStreak, sinceDisc>>

\* --------------------------------------------------------- transport events
\* The transports that can emit: the one the handle refers to (cur = TRUE)
\* and the others.
Emitters ==
    (IF webSocket = Null THEN {} ELSE {[cur |-> TRUE, x |-> webSocket[1]]})
        \cup {[cur |-> FALSE, x |-> y] : y \in DOMAIN ws}

\* The emitting transport x has become y.  The handle is an object
\* reference: it refers to the transport it referred to, in its new
\* readyState.
Handle(y, cur) == IF cur THEN y ELSE webSocket

Others(x, y, cur) ==
    IF cur THEN ws ELSE (ws (-) SetToBag({x})) (+) Retire(y)

\* a variant of the listeners whose error handler does not call reject
settle_ignoresError(x, r) ==
    IF x.kind = "none" \/ r = "err"
    THEN UNCHANGED microq
    ELSE microq' = Append(microq, Continuation(x.kind, x.by, "settled", r))

\* resolve()/reject() of the promise of setupWebSocketListeners for transport
\* x: the continuation of the connect() that awaits it is queued
settle(x, r) ==
    IF x.kind = "none"
    THEN UNCHANGED microq
    ELSE microq' = Append(microq, Continuation(x.kind, x.by, "settled", r))

\* the handlers assign this.state only; h is the handle, left as it is
onOpen(h) == /\ state' = "CONNECTED"
             /\ webSocket' = h
             /\ UNCHANGED retries

\* a variant of the message handler that gives up the connection on a
\* payload it cannot read
onMessage_rejectsMalformed(data) ==
    /\ state' = IF data = "malformed" THEN "DISCONNECTED" ELSE state
    /\ UNCHANGED <<webSocket, retries>>

\* data.toString() and a log line, whatever the payload is
onMessage(data) == UNCHANGED <<state, webSocket, retries>>

\* a variant of the error handler that also drops the handle
onError_dropsHandle(h) == /\ state' = "DISCONNECTED"
                          /\ webSocket' = Null
                          /\ UNCHANGED retries

onError(h) == /\ state' = "DISCONNECTED"
              /\ webSocket' = h
              /\ UNCHANGED retries

onClose(h) == /\ state' = "DISCONNECTED"
              /\ webSocket' = h
              /\ UNCHANGED retries

\* the answer of the handshake comes from the network
WsOpen(x, cur) ==
    LET y == <<Transport("OPEN", "none", "")>> IN
    /\ Quiet
    /\ x.readyState = "CONNECTING"
    /\ onOpen(Handle(y, cur))
    /\ ws' = Others(x, y, cur)
    /\ settle(x, "ok")
    /\ lastAct' = "open"
    /\ sent' = FALSE
    /\ out' = ""
    /\ failStreak' = 0
    /\ UNCHANGED <<config, sendErr, uncaught, interval, drv, sinceDisc>>

Payloads == {"well_formed", "malformed"}

\* A frame of an opened transport: the first one may come by
\* process.nextTick right after open, before the continuation of connect().
\* The transport goes on reading frames after close() was called on it
\* (readyState CLOSING), until its receiver has stopped.
WsMessage(x, cur) ==
    /\ Alive
    /\ x.rx
    /\ \E data \in Payloads :
          /\ onMessage(data)
          /\ out' = data
    /\ lastAct' = "message"
    /\ sent' = FALSE
    /\ UNCHANGED <<config, ws, microq, sendErr, uncaught, interval,
                   drv, failStreak, sinceDisc>>

\* The error of a handshake (refused, aborted by close(), bad answer) and the
\* error of a transport that has opened (a bad frame, also after close() was
\* called on it) come by process.nextTick or from the network, also while
\* continuations are queued.  The error of an opened transport stops its
\* receiver: it reads no further frame and reports no further error.  A
\* handshake that failed ("FAILED", readyState CLOSING) emits nothing more
\* but its close.
WsError(x, cur) ==
    LET y == <<Transport(IF x.readyState \in {"CONNECTING", "ABORTING"}
                         THEN "FAILED" ELSE "CLOSING", "none", "")>> IN
    /\ Alive
    /\ x.readyState \in {"CONNECTING", "ABORTING"} \/ x.rx
    /\ onError(Handle(y, cur))
    /\ ws' = Others(x, y, cur)
    /\ settle(x, "err")
    /\ lastAct' = "error"
    /\ sent' = FALSE
    /\ out' = ""
    /\ UNCHANGED <<config, sendErr, uncaught, interval, drv, failStreak,
                   sinceDisc>>

\* The close frame of the peer arrives on an open transport: the transport
\* answers it with close() of its own (readyState CLOSING) and stops its
\* receiver.  It emits no event and no handler of the client runs: state and
\* handle are as they were until the socket closes.  The frame may come by
\* process.nextTick right after open, like any first frame.
WsCloseFrame(x, cur) ==
    LET y == <<Transport("CLOSING", x.kind, x.by)>> IN
    /\ Alive
    /\ x.readyState = "OPEN"
    /\ webSocket' = Handle(y, cur)
    /\ ws' = Others(x, y, cur)
    /\ lastAct' = "close_frame"
    /\ sent' = FALSE
    /\ out' = ""
    /\ UNCHANGED <<state, retries, config, microq, sendErr, uncaught,
                   interval, drv, failStreak, sinceDisc>>

\* The close of a failed handshake follows its error, in the same synchronous
\* step or later; any other close comes from the network.  A transport emits
\* no close before it has emitted open or error.
WsClose(x, cur) ==
    LET y == <<Transport("CLOSED", "none", "")>> IN
    /\ \/ Quiet /\ x.readyState \in {"OPEN", "CLOSING"}
       \/ Alive /\ x.readyState = "FAILED"
    /\ onClose(Handle(y, cur))
    /\ ws' = Others(x, y, cur)
    /\ lastAct' = "close"
    /\ sent' = FALSE
    /\ out' = ""
    /\ UNCHANGED <<config, microq, sendErr, uncaught, interval, drv,
                   failStreak, sinceDisc>>

\* ------------------------------------------------- calls by an outside caller
CallConnect ==
    /\ CanCall
    /\ connect("api")
    /\ UNCHANGED drv

CallPing ==
    /\ CanCall
    /\ ping("api")

CallDisconnect ==
    /\ CanCall
    /\ disconnect
    /\ lastAct' = "disconnect"
    /\ sent' = FALSE
    /\ out' = "disconnect_returned"
    /\ sinceDisc' = TRUE
    /\ UNCHANGED <<retries, config, microq, sendErr, uncaught,
                   interval, drv, failStreak>>

\* ------------------------------------------------------- handleSingleClient
DrvStart ==
    /\ drv = "start"
    /\ connect("init")
    /\ drv' = "connecting"

Tick ==
    /\ Quiet
    /\ interval = "active"
    /\ ping("tick")

\* ------------------------------------------------------------ specifications
InitClient ==
    /\ webSocket = Null
    /\ state = "DISCONNECTED"
    /\ retries = 0
    /\ ws = EmptyBag
    /\ microq = <<>>
    /\ sent = FALSE
    /\ sendErr = FALSE
    /\ uncaught = FALSE
    /\ interval = "unset"
    /\ lastAct = "new"
    /\ out = ""
    /\ sinceDisc = FALSE
    /\ failStreak = 0

\* no proxy file is read
NoProxyFile == proxyUrl = EmptyLine /\ parseRes = NotParsed

Init ==
    /\ InitClient
    /\ NoProxyFile
    /\ proxyConfig \in ProxyConfigs
    /\ drv = "none"
    /\ tracking = FALSE

InitStreak ==
    /\ InitClient
    /\ NoProxyFile
    /\ proxyConfig \in ProxyConfigs
    /\ drv = "none"
    /\ tracking = TRUE

InitDriver ==
    /\ InitClient
    /\ NoProxyFile
    /\ proxyConfig \in {<<>>, <<ValidProxy>>}
    /\ drv = "start"
    /\ tracking = FALSE

\* loadProxyConfigurations: createProxyConfig applied to a line of the file
InitParse ==
    /\ InitClient
    /\ proxyConfig = <<>>
    /\ drv = "none"
    /\ tracking = FALSE
    /\ proxyUrl \in Descriptors
    /\ parseRes = NotParsed

ParseProxy ==
    /\ parseRes = NotParsed
    /\ parseRes' = createProxyConfig(proxyUrl)
    /\ UNCHANGED <<webSocket, state, retries, proxyConfig, proxyUrl, ws,
                   microq, sent, sendErr, uncaught, interval, drv, lastAct, out,
                   tracking, failStreak, sinceDisc>>

Events ==
    \E e \in Emitters :
        \/ WsOpen(e.x, e.cur)
        \/ WsMessage(e.x, e.cur)
        \/ WsError(e.x, e.cur)
        \/ WsCloseFrame(e.x, e.cur)
        \/ WsClose(e.x, e.cur)

Next ==
    \/ CallConnect
    \/ CallPing
    \/ CallDisconnect
    \/ AgentStep
    \/ Resume
    \/ Continue
    \/ Events
    \/ SendCallback

NextDriver ==
    \/ DrvStart
    \/ Tick
    \/ AgentStep
    \/ Resume
    \/ Continue
    \/ CatchStep
    \/ ClearStep
    \/ Events
    \/ SendCallback

Spec == Init /\ [][Next]_vars

\* Spec with the history counter failStreak recorded
SpecStreak == InitStreak /\ [][Next]_vars

SpecDriver == InitDriver /\ [][NextDriver]_vars

SpecParse == InitParse /\ [][ParseProxy]_vars

\* the events that the transport itself schedules by process.nextTick: the
\* error of a handshake that close() has aborted, and the close that follows
\* the error of a handshake
AbortEvents ==
    \E e \in Emitters :
        \/ e.x.readyState = "ABORTING" /\ WsError(e.x, e.cur)
        \/ e.x.readyState = "FAILED" /\ WsClose(e.x, e.cur)

\* Spec with the scheduling that the event loop and the transport guarantee:
\* a queued continuation runs, a send callback that is due is called, an
\* aborted handshake reports its error and close.  Nothing obliges the
\* network to answer.
SpecLive ==
    /\ Spec
    /\ WF_vars(AgentStep)
    /\ WF_vars(Resume)
    /\ WF_vars(Continue)
    /\ WF_vars(SendCallback)
    /\ WF_vars(AbortEvents)

ReadyStates == {"CONNECTING", "OPEN", "ABORTING", "FAILED", "CLOSING", "CLOSED"}

TypeOK ==
    /\ webSocket = Null \/ webSocket[1].readyState \in ReadyStates
    /\ state \in {"DISCONNECTED", "CONNECTING", "CONNECTED"}
    /\ retries \in 0..(MAX_RETRIES + MaxTasks)
    /\ \A x \in DOMAIN ws : x.readyState \in ReadyStates \ {"CLOSED"}
    /\ \A e \in Emitters : e.x.rx => e.x.readyState \in {"OPEN", "CLOSING"}
    /\ NumWs <= MaxWs
    /\ NumCalls <= MaxTasks
    /\ sendErr \in BOOLEAN
    /\ sent \in BOOLEAN
    /\ failStreak \in 0..StreakCap
    /\ proxyUrl \in Descriptors

\* ===================================================================== claims
\* a step creates a transport (it becomes the one the handle refers to)
Created ==
    /\ lastAct' \in {"connect", "ping", "agent"}
    /\ webSocket' # Null
    /\ webSocket'[1].readyState = "CONNECTING"
    /\ (webSocket' # webSocket \/ ws' # ws)

\* C1: while an earlier connect() is still pending, a further connect()
\* (called directly or by ping()) creates no second transport: whenever a
\* transport is created, no call is pending but the one that created it (no
\* other transport is awaited and no call awaits its proxy agent).
C1_NoSecondTransport ==
    [][ Created
            => /\ \A x \in DOMAIN ws' : x.kind = "none"
               /\ \A i \in 1..Len(microq') : microq'[i].pc # "agent" ]_vars

\* C2: a ping() called after exactly MAX_RETRIES consecutive failed
\* ping()-triggered reconnects, with no open in between, fails with the
\* max-retries error and leaves state DISCONNECTED and no transport handle.
C2_SixthPingFails ==
    (lastAct = "ping" /\ failStreak = MAX_RETRIES)
        => (out = "ping_max_retries" /\ state = "DISCONNECTED" /\ webSocket = Null)

\* C3: every transport open event sets the retry counter to 0.
C3_OpenResetsRetries ==
    lastAct = "open" => retries = 0

C5_ConnectedMeansOpenHandle ==
    isConnected => (webSocket # Null /\ webSocket[1].readyState = "OPEN")

\* C6: a ping() made while not connected and with the retry counter below
\* MAX_RETRIES increments the counter by exactly one and invokes connect().
C6_PingIncrementsThenConnects ==
    [][ (lastAct' = "ping" /\ ~isConnected /\ retries < MAX_RETRIES)
            => (retries' = retries + 1 /\ out' = "ping_reconnecting") ]_vars

\* C7: after a ping()-triggered connect fails below the retry ceiling, the
\* client is not torn down and the driver keeps scheduling heartbeat ticks.
C7_FailedConnectRecoverable ==
    [][ (/\ lastAct' = "clear"
         /\ out' = "ping_connect_failed"
         /\ retries < MAX_RETRIES)
            => (interval' = "active" /\ webSocket' # Null) ]_vars

\* C8: an error reported by the send of ping() never escapes as an unhandled
\* background error.
C8_SendErrorSurfaced ==
    uncaught = FALSE

\* C9: disconnect() ends with state DISCONNECTED, no transport handle and the
\* retry counter equal to 0.
C9_DisconnectResets ==
    lastAct = "disconnect"
        => (state = "DISCONNECTED" /\ webSocket = Null /\ retries = 0)

\* C10: from the return of disconnect() until the next connect() call, state
\* stays DISCONNECTED and the transport handle stays null.
C10_QuietAfterDisconnect ==
    sinceDisc => (state = "DISCONNECTED" /\ webSocket = Null)

\* C11: a ping() called while the client is not connected sends no PING
\* frame: not in the step that starts the reconnect, not in the steps of the
\* connect() it awaits, and not in its own continuation after that connect()
\* has resolved or failed, whatever has happened to the state in between.
C11_ReconnectingPingSendsNothing ==
    [][ /\ (lastAct' = "ping" /\ ~isConnected) => ~sent'
        /\ (lastAct' \in {"agent", "resume", "continue"} /\ microq # <<>>
              /\ Head(microq).kind = "ping") => ~sent' ]_vars

\* the continuation of a reconnecting ping() has run after its connect()
\* resolved, with an error of the new transport in between
C11_Witness ==
    /\ lastAct = "continue"
    /\ out = "ping_reconnected"
    /\ state = "DISCONNECTED"
    /\ ~sent

\* C12 (as stated): once a ping() of the driver's tick has failed with the
\* max-retries error, the client is disconnected (state DISCONNECTED, no
\* handle) from then on and no further ping() starts.
C12_DisconnectedAfterMaxRetries ==
    [][ drv = "max_retries"
            => (/\ state' = "DISCONNECTED"
                /\ webSocket' = Null
                /\ lastAct' # "ping") ]_vars

\* the part of C12 that holds: after that failure no further ping() starts
\* and the interval ends cleared
C12_NoPingAfterMaxRetries ==
    [][ drv = "max_retries"
            => (/\ lastAct' # "ping"
                /\ interval = "cleared" => interval' = "cleared") ]_vars

\* C13 (as stated): when the failure of connect() reaches the caller (its
\* continuation runs with the rejection), the state is DISCONNECTED.
C13_FailedConnectIsDisconnected ==
    [][ (lastAct' = "continue"
            /\ out' \in {"connect_failed", "ping_connect_failed"})
                => state = "DISCONNECTED" ]_vars

\* a connect() that was called with a proxy has not yet created its transport
\* or awaits it
ProxyConnectPending ==
    /\ proxyConfig # <<>>
    /\ \/ AtAgent # {}
       \/ Awaited # EmptyBag
       \/ webSocket # Null /\ webSocket[1].kind # "none"

\* C13 (amended): every failure of connect(), whether the proxy dialer
\* cannot be built or the transport reports an error before open, sets the
\* state to DISCONNECTED in the step that rejects the call; when the
\* rejection then reaches the caller the state is DISCONNECTED, or it is
\* CONNECTING because a connect() with a proxy was called in between and is
\* pending; it is never CONNECTED.
C13_CatchSetsDisconnected ==
    [][ /\ out' = "connect_threw" => state' = "DISCONNECTED"
        /\ (lastAct' = "continue"
              /\ out' \in {"connect_failed", "ping_connect_failed"})
                => \/ state = "DISCONNECTED"
                   \/ state = "CONNECTING" /\ ProxyConnectPending ]_vars

\* the rejection of a connect() whose transport reported an error before
\* open has reached the caller
C13_Witness ==
    /\ lastAct = "continue"
    /\ out = "connect_failed"
    /\ proxyConfig = <<>>
    /\ state = "DISCONNECTED"

\* the same for a proxy dialer that cannot be built
C13_WitnessDialer ==
    /\ lastAct = "continue"
    /\ out = "connect_failed"
    /\ proxyConfig = <<BadProxy>>
    /\ state = "DISCONNECTED"

\* C14: connect() called in state CONNECTED creates no transport, starts no
\* pending call and leaves state, handle and retry counter as they are.
C14_ConnectWhenConnectedIsNoop ==
    [][ (lastAct' = "connect" /\ state = "CONNECTED")
            => (/\ state' = state
                /\ webSocket' = webSocket
                /\ retries' = retries
                /\ ws' = ws
                /\ microq' = microq) ]_vars

C14_Witness == lastAct = "connect" /\ out = "connect_noop" /\ state = "CONNECTED"

\* C15: createProxyConfig succeeds exactly on the descriptors with scheme http
\* or https, a non-empty host and a port of digits in MIN_PORT..MAX_PORT, and
\* then returns that hostname and port, with auth (percent-decoded) exactly
\* when user and password are both given; on every other descriptor it fails
\* with a ProxyError.
ValidDescriptor(d) ==
    /\ d.scheme \in {"http", "https"}
    /\ d.host # ""
    /\ d.port.kind = "digits"
    /\ d.port.n \in MIN_PORT..MAX_PORT

C15_ParseAcceptsExactlyValid ==
    parseRes # NotParsed =>
        /\ parseRes.ok <=> ValidDescriptor(proxyUrl)
        /\ parseRes.ok =>
              /\ parseRes.hostname = proxyUrl.host
              /\ parseRes.port = proxyUrl.port.n
              /\ (parseRes.auth # <<>>)
                    <=> (proxyUrl.user # "" /\ proxyUrl.pass # "")

\* C16 (as stated): a connect() that is pending eventually returns.  Once a
\* connect() has been called and is pending, some connect() returns to its
\* caller (resolved or failed), unless an uncaught exception has ended the
\* process.
C16_EveryConnectReturns ==
    (lastAct = "connect" /\ out = "connect_pending")
        ~> (out \in {"connect_resolved", "connect_failed"} \/ uncaught)

\* the transports that a call awaits
NumAwaited ==
    BagCardinality(Awaited)
        + (IF webSocket # Null /\ webSocket[1].kind # "none" THEN 1 ELSE 0)

IsPrefix(p, q) ==
    /\ Len(p) <= Len(q)
    /\ \A i \in 1..Len(p) : q[i] = p[i]

\* the results with which a connect() reaches its caller
Returned ==
    {"connect_resolved", "connect_failed", "ping_reconnected",
     "ping_connect_failed"}

\* the steps that run the continuation at the head of the queue
HeadSteps == {"agent", "resume", "continue"}

\* The safety half of C16 (amended): a connect() that awaits its transport
\* awaits one that has emitted neither open nor error; the open or the
\* error of that transport queues
\* the continuation of that connect() and no other event or call does; a
\* close settles nothing; a queued continuation stays queued until it runs;
\* when it runs connect() returns after open and throws with state
\* DISCONNECTED after error, and then its caller's continuation runs with
\* that result.
C16_SettledCallsReturn ==
    [][ /\ \A e \in Emitters :
              e.x.kind # "none"
                  => e.x.readyState \in {"CONNECTING", "ABORTING"}
        /\ NumAwaited' < NumAwaited
              => /\ lastAct' \in {"open", "error"}
                 /\ NumAwaited' = NumAwaited - 1
                 /\ Len(microq') = Len(microq) + 1
                 /\ microq'[Len(microq')].pc = "settled"
                 /\ microq'[Len(microq')].res
                        = IF lastAct' = "open" THEN "ok" ELSE "err"
        /\ lastAct' = "close" => (microq' = microq /\ NumAwaited' = NumAwaited)
        /\ IF lastAct' \in {"agent", "resume", "continue", "catch", "clear"}
           THEN IsPrefix(Tail(microq), microq')
           ELSE IsPrefix(microq, microq')
        /\ lastAct' = "resume"
              => LET c == microq'[Len(microq')] IN
                 /\ c.pc = "returned"
                 /\ c.kind = Head(microq).kind
                 /\ c.by = Head(microq).by
                 /\ c.res = Head(microq).res
                 /\ IF c.res = "ok" THEN out' = "connect_returned"
                    ELSE out' = "connect_threw" /\ state' = "DISCONNECTED"
        /\ lastAct' = "continue"
              => out' = (IF Head(microq).kind = "ping"
                         THEN (IF Head(microq).res = "ok"
                               THEN "ping_reconnected" ELSE "ping_connect_failed")
                         ELSE (IF Head(microq).res = "ok"
                               THEN "connect_resolved" ELSE "connect_failed"))
      ]_vars

\* C16 (amended): a connect() that awaits its transport returns once that
\* transport has emitted open or error, and not before.  Safety:
\* C16_SettledCallsReturn.  Liveness: once an open or an error has queued a
\* continuation of connect(), a connect() returns to its caller (or an
\* uncaught exception ends the process), and the queue never stays non-empty
\* without its head running.
C16_PendingConnectReturns ==
    /\ C16_SettledCallsReturn
    /\ (\E i \in 1..Len(microq) : microq[i].pc = "settled")
            ~> (out \in Returned \/ uncaught)
    /\ []<>(microq = <<>> \/ lastAct \in HeadSteps \/ uncaught)

\* a connect() has failed after the error and the close of its transport
C16_Witness ==
    /\ lastAct = "continue"
    /\ out = "connect_failed"
    /\ proxyConfig # <<BadProxy>>
    /\ webSocket # Null
    /\ webSocket[1].readyState = "CLOSED"

\* C17: a connect() called in state DISCONNECTED sets the state to CONNECTING
\* in the step that starts it, with a proxy and without one.
C17_ConnectSetsConnecting ==
    [][ (lastAct' = "connect" /\ state = "DISCONNECTED")
            => state' = "CONNECTING" ]_vars

\* C18: a message event, well-formed or malformed, leaves state, handle and
\* retry counter unchanged, throws nothing, settles no pending call and
\* leaves the queued continuations as they are.
C18_MessageChangesNothing ==
    [][ lastAct' = "message"
            => (/\ state' = state
                /\ webSocket' = webSocket
                /\ retries' = retries
                /\ uncaught' = uncaught
                /\ ws' = ws
                /\ microq' = microq
                /\ interval' = interval) ]_vars

\* a malformed frame has come while the continuation of connect() is queued
C18_Witness ==
    /\ lastAct = "message"
    /\ out = "malformed"
    /\ state = "CONNECTED"
    /\ microq # <<>>
    /\ Head(microq).pc = "settled"

\* C19: the retry counter never exceeds MAX_RETRIES.
C19_RetriesAtMostMax == retries <= MAX_RETRIES

\* C20: an open, error or close event of a transport other than the one the
\* handle refers to leaves the connection state unchanged.
C20_StaleEventsIgnored ==
    [][ (/\ lastAct' \in {"open", "error", "close"}
         /\ webSocket # Null
         /\ webSocket' = webSocket)
            => state' = state ]_vars

====
